---- MODULE Spec2Model ----
(***************************************************************************)
(* State-machine model of src/sudoku/solver.py: the backtracking Sudoku    *)
(* solver (depth-first search, minimum-remaining-values selection and      *)
(* forward checking).  The recursion of depth_first_search is an explicit  *)
(* stack of frames; one action per step of its body.                       *)
(***************************************************************************)
EXTENDS Integers, Sequences, FiniteSets, TLC

VARIABLES
    sudoku,        \* the input grid handed to sudoku_solver (0 = blank)
    sol_array,     \* the working grid of the search (None = unassigned)
    order_values,  \* cell -> set of candidate values
    stack,         \* frames of the active depth_first_search calls
    pc,            \* position of the innermost call
    solution,      \* value returned by the call that returned last
    result,        \* the grid returned by sudoku_solver
    run,           \* 1 for the first call of sudoku_solver, 2 for a call on its output
    first_result,  \* the grid the first call returned, once a second call is made
    order_values_no_rollback
                   \* the candidate sets of the solver run side by side whose
                   \* forward_check returns False without lines 188-190

vars == <<sudoku, sol_array, order_values, stack, pc, solution, result,
          run, first_result, order_values_no_rollback>>

(***************************************************************************)
(* Program constants                                                       *)
(***************************************************************************)
N == 9
Box == 3
None == 0
NoSolution == -1

Digits == 1..N
Cells == (0..(N-1)) \X (0..(N-1))

\* line 21: the cells in row-major order
variables == [k \in 1..(N*N) |-> <<(k-1) \div N, (k-1) % N>>]

Range(s) == {s[i] : i \in 1..Len(s)}

(***************************************************************************)
(* Input grids.  Base is a valid complete grid.  An input keeps the cells  *)
(* of Base that hold a digit up to `keep` and blanks the others (keep = 0  *)
(* is the all-zero grid, keep = 9 is Base itself); it may also overwrite   *)
(* one cell with a low or a high digit, which yields grids with a digit    *)
(* repeated in a row, column and box, grids with no completion and no      *)
(* repeated digit, and grids whose completion differs from Base.  RowPair  *)
(* grids hold one digit twice in row 0, in different boxes, and nothing    *)
(* else.                                                                   *)
(***************************************************************************)
MaxOverwrite == 2

Base == [c \in Cells |-> ((Box * (c[1] % Box) + (c[1] \div Box) + c[2]) % N) + 1]

OverwriteCells == {<<1, 3>>, <<4, 4>>}

\* the MaxOverwrite lowest and the MaxOverwrite highest digits
OverwriteDigits == {v \in Digits : v <= MaxOverwrite \/ v > N - MaxOverwrite}

Puzzle(keep) == [c \in Cells |-> IF Base[c] <= keep THEN Base[c] ELSE 0]

RowPair(v) == [Puzzle(0) EXCEPT ![<<0, 1>>] = v, ![<<0, 7>>] = v]

Inputs ==
    {Puzzle(keep) : keep \in 0..N}
    \cup {[Puzzle(keep) EXCEPT ![c] = v] :
             keep \in 0..N, c \in OverwriteCells, v \in OverwriteDigits}
    \cup {RowPair(v) : v \in OverwriteDigits}

(***************************************************************************)
(* Domain setup                                                            *)
(***************************************************************************)
\* mutant: the pre-filled value is ignored, every cell gets 1..9
populate_order_values_blank(grid) == [var \in Cells |-> Digits]

\* lines 38-51: {1..9} for a blank cell, the singleton of its value otherwise
populate_order_values(grid) ==
    [var \in Cells |-> IF grid[var] = 0 THEN Digits ELSE {grid[var]}]

\* mutants: one of the three loops of populate_members left out
row_members_none(var) == <<>>

col_members_none(var) == <<>>

box_members_none(var) == <<>>

\* mutant: the test of line 71 left out, the cell is listed among its own members
row_members_with_self(var) == [j \in 1..N |-> <<var[1], j - 1>>]

\* lines 69-72: the other cells of the row
row_members(var) ==
    SelectSeq([j \in 1..N |-> <<var[1], j - 1>>], LAMBDA m : m[2] # var[2])

\* lines 75-77: the other cells of the column
col_members(var) ==
    SelectSeq([i \in 1..N |-> <<i - 1, var[2]>>], LAMBDA m : m[1] # var[1])

\* mutant: the test of line 83 left out, the cell is listed among its own members
box_members_with_self(var) ==
    LET start_row == Box * (var[1] \div Box)
        start_col == Box * (var[2] \div Box)
    IN  [k \in 1..(Box * Box) |->
            <<start_row + ((k-1) \div Box), start_col + ((k-1) % Box)>>]

\* lines 80-84: the other cells of the 3x3 box
box_members(var) ==
    LET start_row == Box * (var[1] \div Box)
        start_col == Box * (var[2] \div Box)
    IN  SelectSeq([k \in 1..(Box * Box) |->
                      <<start_row + ((k-1) \div Box), start_col + ((k-1) % Box)>>],
                  LAMBDA m : m # var)

\* lines 54-84: cell -> list of the cells of its row, its column and its box
populate_members ==
    [var \in Cells |-> row_members(var) \o col_members(var) \o box_members(var)]

members == populate_members

(***************************************************************************)
(* Variable selection and constraint checks                                *)
(***************************************************************************)
\* lines 142-145: the unassigned cells, in the order of variables
empty_variables(sol) == SelectSeq(variables, LAMBDA var : sol[var] = None)

\* mutant: the last smallest entry instead of the first
argmin_last(sizes) ==
    LET smallest == CHOOSE m \in Range(sizes) : \A x \in Range(sizes) : m <= x
    IN  CHOOSE i \in 1..Len(sizes) :
            sizes[i] = smallest /\ \A j \in (i+1)..Len(sizes) : sizes[j] # smallest

\* line 150, np.argmin: the index of the smallest entry, the first such index
\* when the smallest entry occurs several times
argmin(sizes) ==
    LET smallest == CHOOSE m \in Range(sizes) : \A x \in Range(sizes) : m <= x
    IN  CHOOSE i \in 1..Len(sizes) :
            sizes[i] = smallest /\ \A j \in 1..(i-1) : sizes[j] # smallest

\* lines 132-150
get_empty_var(sol, ov) ==
    LET ev          == empty_variables(sol)
        value_sizes == [k \in 1..Len(ev) |-> Cardinality(ov[ev[k]])]
    IN  ev[argmin(value_sizes)]

\* lines 153-165
is_valid(var, value, sol) ==
    \A i \in 1..Len(members[var]) : sol[members[var][i]] # value

\* mutant: the cell appended to changes last, the one that became empty, is
\* left out of the restoring loop
undo_changes_but_last(ov, changes, value) ==
    [c \in Cells |-> IF c \in Range(SubSeq(changes, 1, Len(changes) - 1))
                     THEN ov[c] \cup {value} ELSE ov[c]]

\* lines 189-190: put value back into every cell of changes
undo_changes(ov, changes, value) ==
    [c \in Cells |-> IF c \in Range(changes) THEN ov[c] \cup {value} ELSE ov[c]]

\* lines 181-192: the loop over members[var] from position i on
RECURSIVE forward_check_from(_, _, _, _, _)
forward_check_from(ms, i, value, ov, changes) ==
    IF i > Len(ms)
    THEN [ok |-> TRUE, order_values |-> ov, changes |-> changes]
    ELSE IF value \in ov[ms[i]]
         THEN LET ov1 == [ov EXCEPT ![ms[i]] = @ \ {value}]
                  ch1 == Append(changes, ms[i])
              IN  IF Cardinality(ov1[ms[i]]) = 0
                  THEN [ok |-> FALSE,
                        order_values |-> undo_changes(ov1, ch1, value),
                        changes |-> ch1]
                  ELSE forward_check_from(ms, i + 1, value, ov1, ch1)
         ELSE forward_check_from(ms, i + 1, value, ov, changes)

\* mutant: nothing is discarded, the call returns True
forward_check_no_prune(var, value, ov) ==
    [ok |-> TRUE, order_values |-> ov, changes |-> <<>>]

\* mutant: the emptiness test of lines 187-191 left out
forward_check_no_fail(var, value, ov) ==
    [ok |-> TRUE,
     order_values |-> [c \in Cells |-> IF c \in Range(members[var])
                                       THEN ov[c] \ {value} ELSE ov[c]],
     changes |-> SelectSeq(members[var], LAMBDA c : value \in ov[c])]

\* lines 181-192 without the restoring loop of lines 188-190: on failure the
\* candidate sets stay as the loop has left them
RECURSIVE forward_check_from_no_rollback(_, _, _, _, _)
forward_check_from_no_rollback(ms, i, value, ov, changes) ==
    IF i > Len(ms)
    THEN [ok |-> TRUE, order_values |-> ov, changes |-> changes]
    ELSE IF value \in ov[ms[i]]
         THEN LET ov1 == [ov EXCEPT ![ms[i]] = @ \ {value}]
                  ch1 == Append(changes, ms[i])
              IN  IF Cardinality(ov1[ms[i]]) = 0
                  THEN [ok |-> FALSE, order_values |-> ov1, changes |-> ch1]
                  ELSE forward_check_from_no_rollback(ms, i + 1, value, ov1, ch1)
         ELSE forward_check_from_no_rollback(ms, i + 1, value, ov, changes)

forward_check_no_rollback(var, value, ov) ==
    forward_check_from_no_rollback(members[var], 1, value, ov, <<>>)

\* lines 168-192: the returned flag, the candidate sets it leaves behind and
\* the list changes at the return
forward_check(var, value, ov) == forward_check_from(members[var], 1, value, ov, <<>>)

(***************************************************************************)
(* Iteration order of line 107.  The loop runs over a fresh copy of the    *)
(* candidate set.  CPython stores a set of small integers in a hash table  *)
(* (hash(v) = v): a copy of five or more values gets 16 or 32 slots, where *)
(* 1..9 cannot collide, and lists them ascending; a copy of at most four   *)
(* values gets 8 slots, value v going to slot v % 8 and, when that slot is *)
(* taken, on to slot (5*i + 1) % 8.  Iteration is in slot order.  The      *)
(* values are inserted in the source set's own iteration order, which the  *)
(* model leaves open except that 1 is inserted before 9 (the only pair of  *)
(* values that collide).                                                   *)
(***************************************************************************)
SmallTable == 8
SmallTableMax == 4

Ascending(S) ==
    LET RECURSIVE asc(_)
        asc(T) == IF T = {} THEN <<>>
                  ELSE LET m == CHOOSE x \in T : \A y \in T : x <= y
                       IN  <<m>> \o asc(T \ {m})
    IN  asc(S)

\* the slot a key ends in: start at its hash, probe until a free slot
RECURSIVE probe(_, _)
probe(table, i) == IF table[i] = 0 THEN i ELSE probe(table, (5 * i + 1) % SmallTable)

RECURSIVE insert_all(_, _, _)
insert_all(table, keys, k) ==
    IF k > Len(keys) THEN table
    ELSE insert_all([table EXCEPT ![probe(table, keys[k] % SmallTable)] = keys[k]],
                    keys, k + 1)

slot_order(table) ==
    LET RECURSIVE walk(_)
        walk(i) == IF i >= SmallTable THEN <<>>
                   ELSE (IF table[i] = 0 THEN <<>> ELSE <<table[i]>>) \o walk(i + 1)
    IN  walk(0)

insertion_orders(S) ==
    {p \in [1..Cardinality(S) -> S] :
        /\ \A i, j \in DOMAIN p : i # j => p[i] # p[j]
        /\ \A i, j \in DOMAIN p : (p[i] = 9 /\ p[j] = 1) => j < i}

\* the sequences in which `for value in order_values[empty_var].copy()` can run
copy_iteration_orders(S) ==
    IF Cardinality(S) > SmallTableMax
    THEN {Ascending(S)}
    ELSE {slot_order(insert_all([i \in 0..(SmallTable - 1) |-> 0], p, 1)) :
              p \in insertion_orders(S)}

(***************************************************************************)
(* depth_first_search, lines 87-129, and its caller sudoku_solver          *)
(***************************************************************************)
\* line 34
Sentinel == [c \in Cells |-> NoSolution]

\* mutant: the loop never moves past the current value
same_values(values) == values

\* line 107: the for loop moves on to the value after the current one
next_values(values) == Tail(values)

\* mutant: the test of line 95 never succeeds
base_case_never(sol) == FALSE

\* line 95, `not None in sol_array`: every cell is assigned
base_case(sol) == \A c \in Cells : sol[c] # None

Top == stack[Len(stack)]
Pop == SubSeq(stack, 1, Len(stack) - 1)

Init ==
    /\ sudoku \in Inputs
    /\ sol_array = [c \in Cells |-> None]
    /\ order_values = populate_order_values(sudoku)
    /\ stack = <<>>
    /\ pc = "call"
    /\ solution = "unset"
    /\ result = <<>>
    /\ run = 1
    /\ first_result = <<>>
    /\ order_values_no_rollback = populate_order_values(sudoku)

\* lines 95-96: every cell is assigned, the working grid is returned
BaseCase ==
    /\ pc = "call"
    /\ base_case(sol_array)
    /\ solution' = "sol_array"
    /\ pc' = "return"
    /\ UNCHANGED <<sudoku, sol_array, order_values, stack, result, run, first_result,
                 order_values_no_rollback>>

\* lines 99-107: select a cell and start the loop over a copy of its candidates.
\* With no unassigned cell np.argmin is handed an empty array and raises
\* ValueError, which leaves depth_first_search and sudoku_solver.
SelectVar ==
    /\ pc = "call"
    /\ ~base_case(sol_array)
    /\ IF empty_variables(sol_array) = <<>>
       THEN /\ pc' = "raise"
            /\ UNCHANGED stack
       ELSE /\ LET empty_var == get_empty_var(sol_array, order_values)
               IN  \E values \in copy_iteration_orders(order_values[empty_var]) :
                      stack' = Append(stack,
                                      [empty_var |-> empty_var,
                                       values |-> values,
                                       value |-> None,
                                       old_order_values |-> <<>>,
                                       old_order_values_no_rollback |-> <<>>,
                                       entry_sol_array |-> sol_array,
                                       entry_order_values |-> order_values])
            /\ pc' = "loop"
    /\ UNCHANGED <<sudoku, sol_array, order_values, solution, result, run, first_result,
                 order_values_no_rollback>>

\* lines 107-114: the next value; when valid it is assigned and the backup taken
TryValue ==
    /\ pc = "loop"
    /\ Top.values # <<>>
    /\ LET value == Head(Top.values)
       IN  IF is_valid(Top.empty_var, value, sol_array)
           THEN /\ sol_array' = [sol_array EXCEPT ![Top.empty_var] = value]
                /\ stack' = [stack EXCEPT ![Len(stack)] =
                               [@ EXCEPT !.values = next_values(@),
                                         !.value = value,
                                         !.old_order_values = order_values,
                                         !.old_order_values_no_rollback =
                                             order_values_no_rollback]]
                /\ pc' = "forward_check"
           ELSE /\ stack' = [stack EXCEPT ![Len(stack)] =
                               [@ EXCEPT !.values = next_values(@), !.value = value]]
                /\ UNCHANGED <<sol_array, pc>>
    /\ UNCHANGED <<sudoku, order_values, solution, result, run, first_result,
                 order_values_no_rollback>>

\* lines 117-120: forward check succeeded, recursive call
ForwardCheckOk ==
    /\ pc = "forward_check"
    /\ LET fc == forward_check(Top.empty_var, Top.value, order_values)
       IN  /\ fc.ok
           /\ order_values' = fc.order_values
    /\ order_values_no_rollback' =
           forward_check_no_rollback(Top.empty_var, Top.value,
                                     order_values_no_rollback).order_values
    /\ pc' = "call"
    /\ UNCHANGED <<sudoku, sol_array, stack, solution, result, run, first_result>>

\* line 117: forward check failed, fall through to the restore
ForwardCheckFail ==
    /\ pc = "forward_check"
    /\ LET fc == forward_check(Top.empty_var, Top.value, order_values)
       IN  /\ ~fc.ok
           /\ order_values' = fc.order_values
    /\ order_values_no_rollback' =
           forward_check_no_rollback(Top.empty_var, Top.value,
                                     order_values_no_rollback).order_values
    /\ pc' = "restore"
    /\ UNCHANGED <<sudoku, sol_array, stack, solution, result, run, first_result>>

\* mutant: line 127 left out, the candidate sets stay pruned
Restore_no_backup ==
    /\ pc = "restore"
    /\ sol_array' = [sol_array EXCEPT ![Top.empty_var] = None]
    /\ pc' = "loop"
    /\ UNCHANGED <<sudoku, order_values, stack, solution, result, run, first_result,
                 order_values_no_rollback>>

\* mutant: line 128 left out, the cell stays assigned
Restore_no_unassign ==
    /\ pc = "restore"
    /\ order_values' = Top.old_order_values
    /\ order_values_no_rollback' = Top.old_order_values_no_rollback
    /\ pc' = "loop"
    /\ UNCHANGED <<sudoku, sol_array, stack, solution, result, run, first_result>>

\* lines 127-128: restore the backup, unassign the cell
Restore ==
    /\ pc = "restore"
    /\ order_values' = Top.old_order_values
    /\ order_values_no_rollback' = Top.old_order_values_no_rollback
    /\ sol_array' = [sol_array EXCEPT ![Top.empty_var] = None]
    /\ pc' = "loop"
    /\ UNCHANGED <<sudoku, stack, solution, result, run, first_result>>

\* line 129: the loop is exhausted, the call returns None
LoopExhausted ==
    /\ pc = "loop"
    /\ Top.values = <<>>
    /\ stack' = Pop
    /\ solution' = "None"
    /\ pc' = "return"
    /\ UNCHANGED <<sudoku, sol_array, order_values, result, run, first_result,
                 order_values_no_rollback>>

\* lines 120-124: the recursive call returned a solution, pass it up
ReturnSolution ==
    /\ pc = "return"
    /\ stack # <<>>
    /\ solution = "sol_array"
    /\ stack' = Pop
    /\ UNCHANGED <<sudoku, sol_array, order_values, pc, solution, result, run, first_result,
                 order_values_no_rollback>>

\* lines 120-123: the recursive call returned None, go on to the restore
ReturnNone ==
    /\ pc = "return"
    /\ stack # <<>>
    /\ solution = "None"
    /\ pc' = "restore"
    /\ UNCHANGED <<sudoku, sol_array, order_values, stack, solution, result, run, first_result,
                 order_values_no_rollback>>

\* lines 30-35: the outermost call returned to sudoku_solver
Finish ==
    /\ pc = "return"
    /\ stack = <<>>
    /\ result' = IF solution = "None" THEN Sentinel ELSE sol_array
    /\ pc' = "done"
    /\ UNCHANGED <<sudoku, sol_array, order_values, stack, solution, run, first_result,
                 order_values_no_rollback>>

Next ==
    \/ BaseCase
    \/ SelectVar
    \/ TryValue
    \/ ForwardCheckOk
    \/ ForwardCheckFail
    \/ Restore
    \/ LoopExhausted
    \/ ReturnSolution
    \/ ReturnNone
    \/ Finish

Spec == Init /\ [][Next]_vars

(***************************************************************************)
(* A caller that hands a solved output back to sudoku_solver (lines 3-35   *)
(* run a second time, on the grid the first call returned).                *)
(***************************************************************************)
Resubmit ==
    /\ pc = "done"
    /\ run = 1
    /\ result # Sentinel
    /\ sudoku' = result
    /\ sol_array' = [c \in Cells |-> None]
    /\ order_values' = populate_order_values(result)
    /\ stack' = <<>>
    /\ pc' = "call"
    /\ solution' = "unset"
    /\ result' = <<>>
    /\ run' = 2
    /\ first_result' = result
    /\ order_values_no_rollback' = populate_order_values(result)

NextResubmit == Next \/ Resubmit

SpecResubmit == Init /\ [][NextResubmit]_vars

(***************************************************************************)
(* Vocabulary of the properties: the Sudoku rules stated on their own,     *)
(* without the lists and the search of the program.                        *)
(***************************************************************************)
SameRow(a, b) == a[1] = b[1]
SameCol(a, b) == a[2] = b[2]
SameBox(a, b) == (a[1] \div Box = b[1] \div Box) /\ (a[2] \div Box = b[2] \div Box)

Peer(a, b) == a # b /\ (SameRow(a, b) \/ SameCol(a, b) \/ SameBox(a, b))

PeerSet == [c \in Cells |-> {d \in Cells : Peer(c, d)}]

Units ==
    {{c \in Cells : c[1] = r} : r \in 0..(N-1)}
    \cup {{c \in Cells : c[2] = k} : k \in 0..(N-1)}
    \cup {{c \in Cells : c[1] \div Box = i /\ c[2] \div Box = j} :
             i \in 0..(Box-1), j \in 0..(Box-1)}

\* every entry is a digit and every row, column and box holds each digit
\* exactly once (nine cells, nine distinct digits)
ValidSolution(g) ==
    /\ \A c \in Cells : g[c] \in Digits
    /\ \A u \in Units : {g[c] : c \in u} = Digits

\* no two peers hold the same digit
Consistent(g) ==
    \A a \in Cells : g[a] # 0 => \A b \in PeerSet[a] : g[b] # g[a]

Candidates(g, c) == {v \in Digits : \A d \in PeerSet[c] : g[d] # v}

\* some way of filling the blanks of a consistent grid g obeys the rules
RECURSIVE Completable(_)
Completable(g) ==
    LET blanks == {c \in Cells : g[c] = 0}
    IN  IF blanks = {} THEN TRUE
        ELSE LET c == CHOOSE x \in blanks : \A y \in blanks :
                         Cardinality(Candidates(g, x)) <= Cardinality(Candidates(g, y))
             IN  \E v \in Candidates(g, c) : Completable([g EXCEPT ![c] = v])

HasCompletion(g) == Consistent(g) /\ Completable(g)

RowDuplicate(g) ==
    \E a, b \in Cells : a # b /\ SameRow(a, b) /\ g[a] # 0 /\ g[a] = g[b]

IsAscending(seq) == \A i \in 1..(Len(seq) - 1) : seq[i] < seq[i + 1]

Returned == pc = "done"
Solved == Returned /\ result # Sentinel

(***************************************************************************)
(* C1: the grid sudoku_solver returns is either -1 in all 81 cells or a    *)
(* grid of digits 1..9 in which every row, column and box holds each digit *)
(* once; nothing half-filled or mixed is returned.                         *)
(***************************************************************************)
C1_SolvedOrSentinel == Returned => (result = Sentinel \/ ValidSolution(result))

\* a puzzle with blanks has been solved
C1_Witness == Solved /\ \E c \in Cells : sudoku[c] = 0

(***************************************************************************)
(* C2: the search is complete: the all-(-1) grid is returned only for an   *)
(* input that has no completion obeying the rules and agreeing with the    *)
(* pre-filled cells; an input that has one gets a solved grid, and the     *)
(* all-zero grid in particular does.                                       *)
(***************************************************************************)
C2_Complete ==
    Returned =>
        /\ result = Sentinel => ~HasCompletion(sudoku)
        /\ result # Sentinel => ValidSolution(result)
        /\ sudoku = Puzzle(0) => result # Sentinel

\* a puzzle with pre-filled cells got a completion other than Base
C2_Witness == Solved /\ result # Base /\ \E c \in Cells : sudoku[c] # 0

(***************************************************************************)
(* C3: in a solved output every cell that was pre-filled in the input      *)
(* holds the input's value.                                                *)
(***************************************************************************)
C3_GivensKept == Solved => \A c \in Cells : sudoku[c] # 0 => result[c] = sudoku[c]

\* solved, with a pre-filled cell that differs from Base
C3_Witness == Solved /\ \E c \in Cells : sudoku[c] # 0 /\ sudoku[c] # Base[c]

(***************************************************************************)
(* C4: an input with the same non-zero value in two cells of one row gets  *)
(* the grid with -1 in all 81 cells.                                       *)
(***************************************************************************)
C4_RowDuplicateUnsolvable == (Returned /\ RowDuplicate(sudoku)) => result = Sentinel

\* the two equal cells share the row only, not the box
C4_Witness ==
    /\ Returned
    /\ result = Sentinel
    /\ \E a, b \in Cells :
          a # b /\ SameRow(a, b) /\ ~SameBox(a, b) /\ sudoku[a] # 0 /\ sudoku[a] = sudoku[b]

(***************************************************************************)
(* C5: idempotence: the solver run on a solved output returns that same    *)
(* grid; a valid, completely filled input is returned unchanged.           *)
(***************************************************************************)
C5_Idempotent ==
    Returned =>
        /\ run = 2 => result = first_result
        /\ ValidSolution(sudoku) => result = sudoku

\* the second call has returned, on a grid the search itself completed
C5_Witness == Returned /\ run = 2 /\ first_result # Base

(***************************************************************************)
(* C6: on every input the search terminates, with a solved grid or with    *)
(* exhaustive failure; no run goes on forever.  Stated through a progress  *)
(* word: one entry for sudoku_solver and one per active call, an entry     *)
(* counting the values the call's loop has taken and how far the current   *)
(* value has got.  Every step makes the word lexicographically larger, the *)
(* word is bounded (at most 82 entries, each at most 5*9+4), and a step is *)
(* possible in every state but the final one: so every run is finite and   *)
(* ends with sudoku_solver returning.                                      *)
(***************************************************************************)
Taken(frame) ==
    Cardinality(frame.entry_order_values[frame.empty_var]) - Len(frame.values)

Phase(p) ==
    CASE p = "forward_check" -> 0
      [] p = "call"          -> 1
      [] p = "return"        -> 2
      [] p = "restore"       -> 3
      [] p = "loop"          -> 4
      [] p = "done"          -> 5

ProgressWord(stk, p) ==
    <<IF stk = <<>> THEN Phase(p) ELSE 1>>
    \o [i \in 1..Len(stk) |->
           5 * Taken(stk[i]) + (IF i = Len(stk) THEN Phase(p) ELSE 1)]

\* a is a proper prefix of b, or smaller at the first entry where they differ
LexLess(a, b) ==
    \E k \in 1..Len(b) :
        /\ \A j \in 1..(k-1) : j <= Len(a) /\ a[j] = b[j]
        /\ k > Len(a) \/ a[k] < b[k]

CanStep ==
    \/ pc = "call"
    \/ pc \in {"loop", "forward_check", "restore"} /\ stack # <<>>
    \/ pc = "return" /\ solution \in {"None", "sol_array"}

C6_Terminates ==
    /\ [][\E before \in {ProgressWord(stack, pc)}, after \in {ProgressWord(stack', pc')} :
              LexLess(before, after)]_vars
    /\ [](Returned \/ CanStep)

\* exhaustive failure on an input without a repeated digit
C6_Witness == Returned /\ result = Sentinel /\ Consistent(sudoku)

(***************************************************************************)
(* C7: at every branching point the candidate values of the selected cell  *)
(* are tried in ascending numeric order.                                   *)
(***************************************************************************)
C7_AscendingOrder == \A i \in 1..Len(stack) : IsAscending(stack[i].values)

(***************************************************************************)
(* C8: in every state of the search no two distinct cells sharing a row,   *)
(* a column or a box hold the same assigned value in the working grid: in  *)
(* each row, column and box the assigned cells hold as many different      *)
(* values as there are assigned cells.                                     *)
(***************************************************************************)
C8_Consistency ==
    \A u \in Units :
        Cardinality({sol_array[c] : c \in u} \ {None})
            = Cardinality({c \in u : sol_array[c] # None})

\* a blank cell has just been given a value, deeper in the search
C8_Witness ==
    /\ pc = "forward_check"
    /\ Len(stack) >= 2
    /\ sudoku[Top.empty_var] = 0

(***************************************************************************)
(* C9: whenever depth_first_search is entered, every unassigned cell has   *)
(* a non-empty candidate set.                                              *)
(***************************************************************************)
C9_NonEmptyAtEntry ==
    pc = "call" => \A c \in Cells : sol_array[c] = None => order_values[c] # {}

\* a call entered after an earlier value of the same cell had failed
C9_Witness ==
    /\ pc = "call"
    /\ stack # <<>>
    /\ Len(Top.values) + 1 < Cardinality(Top.entry_order_values[Top.empty_var])

(***************************************************************************)
(* C10: backtracking restores the grid and the candidate sets together:    *)
(* at every head of the loop (so after each failed value) both equal what  *)
(* they were when the call was entered, the selected cell unassigned; and  *)
(* when a call returns None both equal what they were at its entry.        *)
(***************************************************************************)
AtEntry ==
    /\ sol_array = Top.entry_sol_array
    /\ order_values = Top.entry_order_values
    /\ sol_array[Top.empty_var] = None

C10_RestoredInLockstep ==
    /\ [](pc = "loop" => AtEntry)
    /\ [][LoopExhausted => (/\ sol_array' = Top.entry_sol_array
                            /\ order_values' = Top.entry_order_values)]_vars

\* a nested call has returned None after its candidates were pruned and restored
C10_Witness ==
    /\ pc = "return"
    /\ solution = "None"
    /\ Len(stack) >= 2
    /\ order_values # populate_order_values(sudoku)

(***************************************************************************)
(* C11: get_empty_var returns an unassigned cell, its candidate set is no  *)
(* larger than that of any other unassigned cell, and among the unassigned *)
(* cells with the smallest candidate set it is the first in row-major      *)
(* order.  Stated of the cell each call has selected, against the grid and *)
(* the candidate sets the call was entered with.                           *)
(***************************************************************************)
RowMajorBefore(a, b) == a[1] < b[1] \/ (a[1] = b[1] /\ a[2] < b[2])

C11_MinimumRemainingValues ==
    pc = "loop" =>
        \E var \in {Top.empty_var}, sol \in {Top.entry_sol_array},
           ov \in {Top.entry_order_values} :
            /\ sol[var] = None
            /\ \A c \in Cells \ {var} :
                  sol[c] = None =>
                      \/ Cardinality(ov[var]) < Cardinality(ov[c])
                      \/ /\ Cardinality(ov[var]) = Cardinality(ov[c])
                         /\ RowMajorBefore(var, c)

\* the selected cell comes after an unassigned cell with more candidates and
\* before an unassigned cell with as many
C11_Witness ==
    /\ pc = "loop"
    /\ \E c \in Cells :
          /\ Top.entry_sol_array[c] = None
          /\ RowMajorBefore(c, Top.empty_var)
          /\ Cardinality(Top.entry_order_values[c])
                 > Cardinality(Top.entry_order_values[Top.empty_var])
    /\ \E c \in Cells :
          /\ Top.entry_sol_array[c] = None
          /\ RowMajorBefore(Top.empty_var, c)
          /\ Cardinality(Top.entry_order_values[c])
                 = Cardinality(Top.entry_order_values[Top.empty_var])

(***************************************************************************)
(* C12: when forward_check reports failure it has undone exactly the       *)
(* removals it made: the candidate set of every cell equals what it was    *)
(* immediately before the call.                                            *)
(***************************************************************************)
C12_FailureRestores == [][ForwardCheckFail => order_values' = order_values]_vars

\* the first dead end of a run: forward_check has just failed, after taking
\* the value out of two or more candidate sets
C12_Witness ==
    /\ pc = "restore"
    /\ solution = "unset"
    /\ Len(forward_check(Top.empty_var, Top.value, order_values).changes) >= 2

(***************************************************************************)
(* C13: when forward_check(var, value) reports success, value is absent    *)
(* from the candidate set of every peer of var, no other value has been    *)
(* removed from any candidate set, and the candidate sets of var itself    *)
(* and of the cells that are not peers of var are unchanged.               *)
(***************************************************************************)
C13_SuccessFrame ==
    [][ForwardCheckOk =>
          \A c \in Cells :
              order_values'[c] = IF c \in PeerSet[Top.empty_var]
                                 THEN order_values[c] \ {Top.value}
                                 ELSE order_values[c]]_vars

\* a successful forward check has taken the value out of a peer's candidate
\* set while a cell that is no peer still has it
C13_Witness ==
    /\ pc = "call"
    /\ stack # <<>>
    /\ \E c \in PeerSet[Top.empty_var] : Top.value \in Top.old_order_values[c]
    /\ \E c \in Cells \ PeerSet[Top.empty_var] :
          c # Top.empty_var /\ Top.value \in order_values[c]

(***************************************************************************)
(* C14: populate_members maps every one of the 81 cells to a collection of *)
(* exactly 20 peer cells: precisely the other cells of its row, its column *)
(* or its box, never the cell itself; the relation is symmetric.  Stated   *)
(* of the member list of the cell the innermost call has selected (every   *)
(* one of the 81 cells is selected in a run that solves the puzzle).       *)
(* C14_TwentyPeers states the claim of the collection the program builds;  *)
(* C14_PeersListed states what holds of it: a list of 24 entries (8 of the *)
(* row, 8 of the column, 8 of the box) that names exactly the 20 peers,    *)
(* the four box cells sharing the row or the column being listed twice.    *)
(***************************************************************************)
C14_TwentyPeers ==
    stack # <<>> =>
        \E c \in {Top.empty_var} :
            /\ Len(members[c]) = 20
            /\ Range(members[c]) = PeerSet[c]
            /\ \A d \in Range(members[c]) : c \in Range(members[d])

C14_PeersListed ==
    stack # <<>> =>
        \E c \in {Top.empty_var} :
            /\ Len(members[c]) = 3 * (N - 1)
            /\ Cardinality(Range(members[c])) = 20
            /\ Range(members[c]) = PeerSet[c]
            /\ c \notin Range(members[c])
            /\ \A d \in Range(members[c]) : c \in Range(members[d])

\* all 81 cells have been selected, and the member list of the last one
\* names some cell twice
C14_Witness ==
    /\ Len(stack) = N * N
    /\ Len(members[Top.empty_var]) > Cardinality(Range(members[Top.empty_var]))

(***************************************************************************)
(* C15: the rollback inside forward_check is redundant.  The solver whose  *)
(* forward_check returns False without restoring runs side by side with    *)
(* the original, on the same grid, stack and position; its candidate sets  *)
(* and its snapshots are kept apart.  Every decision of the search (the    *)
(* base case, the cell selected, the values of the loop, is_valid, the     *)
(* flag of forward_check, the grid returned) reads the grid and the        *)
(* candidate sets at a position other than the restore of lines 127-128,   *)
(* and there the two solvers hold the same candidate sets; the restore     *)
(* reads only the snapshot, and the two snapshots are the same.  So the    *)
(* two runs make the same selections and assignments and return the same   *)
(* grid.                                                                   *)
(***************************************************************************)
C15_RollbackRedundant ==
    /\ pc # "restore" => order_values_no_rollback = order_values
    /\ (pc \in {"forward_check", "restore"} \/ (pc = "call" /\ stack # <<>>)) =>
           Top.old_order_values_no_rollback = Top.old_order_values

\* a forward check has just failed and the solver without the rollback holds
\* candidate sets that differ from the original's
C15_Witness ==
    /\ pc = "restore"
    /\ order_values_no_rollback # order_values
    /\ Len(stack) >= 2

(***************************************************************************)
(* C16: variable selection is never executed in a state where every cell   *)
(* is assigned: the base case returns first, so get_empty_var is only ever *)
(* called with at least one unassigned cell, and its outcome for no        *)
(* unassigned cell never happens.                                          *)
(***************************************************************************)
C16_SelectionHasEmptyCell ==
    /\ [][SelectVar => empty_variables(sol_array) # <<>>]_vars
    /\ [](pc # "raise")

\* a cell has been selected when it was the only unassigned one
C16_Witness ==
    /\ pc = "loop"
    /\ Len(empty_variables(Top.entry_sol_array)) = 1
    /\ sudoku[Top.empty_var] = 0

(***************************************************************************)
(* C17: the peer-consistency check is redundant: wherever the search reads *)
(* the candidate sets (at the entry of a call and at the head of its       *)
(* loop), no value in a cell's candidate set is held by an assigned peer   *)
(* of that cell, and is_valid never returns False for a value the loop     *)
(* takes from the selected cell's candidate set.                           *)
(***************************************************************************)
NoAssignedPeerValue ==
    \A d \in Cells :
        sol_array[d] # None =>
            \A c \in PeerSet[d] : sol_array[d] \notin order_values[c]

C18_AssignedValueKept ==
    /\ [](pc = "call" =>
              \A c \in Cells : sol_array[c] # None => sol_array[c] \in order_values[c])
    /\ [][ForwardCheckFail =>
              \E fc \in {forward_check(Top.empty_var, Top.value, order_values)} :
                  sol_array[fc.changes[Len(fc.changes)]] = None]_vars

\* a call is entered while an assigned cell has lost candidates to forward
\* checks made after its own assignment, and an earlier branch has failed
C18_Witness ==
    /\ pc = "call"
    /\ solution = "None"
    /\ \E i \in 1..Len(stack) :
          /\ sol_array[stack[i].empty_var] # None
          /\ order_values[stack[i].empty_var]
                 # stack[i].entry_order_values[stack[i].empty_var]

====
